---- MODULE Spec2Model ----
(***************************************************************************)
(* MinHash / LSH-banding index of src/main.rs: chunked_min_hash,           *)
(* string_shingles, jaccard_similarity, nearest_neighbors, index_documents *)
(* and search_index, driven the way main drives them: documents are        *)
(* pushed, the index is built once, one query is searched.                 *)
(*                                                                         *)
(* HASH_COUNT and BAND_SIZE keep their values.  SHINGLE_SIZE is scaled      *)
(* from 4 to 2 so that texts of a few characters already have several      *)
(* shingles and span more than one band.  The functions are written over a *)
(* hash_count parameter; main's run calls them with HASH_COUNT.            *)
(***************************************************************************)
EXTENDS Integers, Sequences, FiniteSets

\* ------------------------------------------------------------ constants
HASH_COUNT == 100
BAND_SIZE == 2
SHINGLE_SIZE == 2

\* ------------------------------------------------------------ bounds
\* longest document / query text of the index-and-search specification
MaxLen == 4
\* largest corpus
MaxDocs == 2
\* largest n handed to search_index
MaxTopN == 2
\* longest document of the single-function specification
MaxSigLen == 6
\* hash_count ranges over BAND_SIZE * (1 .. MaxBands) where it is a parameter
MaxBands == 3
\* usize is UsizeBits wide (64 in the program)
UsizeBits == 16
\* the 64-bit output space of DefaultHasher, scaled, and the mixing multiplier
HashSpace == 1021
HashMult == 31

CHARSET == {"A", "B"}

CharByte(c) == IF c = "A" THEN 65 ELSE 66

RECURSIVE Pow2(_)
Pow2(n) == IF n = 0 THEN 1 ELSE 2 * Pow2(n - 1)

UsizeRange == Pow2(UsizeBits)
IsizeMax == Pow2(UsizeBits - 1) - 1

Min(a, b) == IF a < b THEN a ELSE b

Range(s) == {s[i] : i \in 1 .. Len(s)}

\* a function over 1 .. n as the explicit sequence of its values
Vec(f) == <<>> \o f

Strings(maxLen) == UNION {[1 .. l -> CHARSET] : l \in 0 .. maxLen}

HashCounts == {BAND_SIZE * i : i \in 1 .. MaxBands}

\* ------------------------------------------------------------ hashing
\* DefaultHasher::new() has fixed keys: one deterministic function of the
\* bytes written.  Hasher::write of one unit, then finish() is the state.
HasherWrite(h, unit) == (h * HashMult + unit + 1) % HashSpace

RECURSIVE HasherWriteAll(_, _)
HasherWriteAll(h, units) ==
    IF units = <<>> THEN h
    ELSE HasherWriteAll(HasherWrite(h, Head(units)), Tail(units))

\* <str as Hash>::hash: the bytes, then 0xff
HashStr(shingle) ==
    HasherWrite(HasherWriteAll(0, [i \in 1 .. Len(shingle) |-> CharByte(shingle[i])]), 255)

\* <[u64] as Hash>::hash: the length prefix, then every element in order
HashChunk(chunk) == HasherWriteAll(HasherWrite(0, Len(chunk)), chunk)

\* ------------------------------------------------------------ usize arithmetic
\* a - b on usize: panics under overflow checks (debug), wraps otherwise
SubOverflows(a, b) == a < b
WrappingSub(a, b) == (a - b + UsizeRange) % UsizeRange
WrappingAdd(a, b) == (a + b) % UsizeRange

\* document[idx .. idx + SHINGLE_SIZE], idx 0-based
Shingle(document, idx) == SubSeq(document, idx + 1, idx + SHINGLE_SIZE)

\* ------------------------------------------------------------ chunked_min_hash
\* let shingle_count = document.len() - SHINGLE_SIZE + 1;
\* evaluated left to right on usize: with overflow checks the subtraction
\* panics whenever len < SHINGLE_SIZE; without them both steps wrap.
CmhShingleCount(document, checks) ==
    IF ~SubOverflows(Len(document), SHINGLE_SIZE)
    THEN [panic |-> FALSE, val |-> Len(document) - SHINGLE_SIZE + 1]
    ELSE IF checks
    THEN [panic |-> TRUE, val |-> 0]
    ELSE [panic |-> FALSE,
          val |-> WrappingAdd(WrappingSub(Len(document), SHINGLE_SIZE), 1)]

\* BinaryHeap::with_capacity(n) of 8-byte elements: "capacity overflow"
WithCapacityPanics(n) == n * 8 > IsizeMax

\* &document[idx .. idx + SHINGLE_SIZE] for idx in 0 .. shingle_count panics
\* as soon as one slice ends past the text
SlicePanics(document, shingle_count) ==
    shingle_count > 0 /\ (shingle_count - 1) + SHINGLE_SIZE > Len(document)

\* the heap after the push loop, as the sequence of pushed hashes
PushedHashes(document, shingle_count) ==
    Vec([i \in 1 .. shingle_count |-> HashStr(Shingle(document, i - 1))])

\* faulty variant: a heap without Reverse, the top is the largest hash
HeapTopMax(heap) == CHOOSE x \in Range(heap) : \A y \in Range(heap) : x >= y
\* BinaryHeap<Reverse<u64>>: the top is the smallest hash
HeapTop(heap) == CHOOSE x \in Range(heap) : \A y \in Range(heap) : x <= y

HeapRemove(heap, v) ==
    LET at == CHOOSE i \in 1 .. Len(heap) :
                 heap[i] = v /\ \A j \in 1 .. i - 1 : heap[j] # v
    IN SubSeq(heap, 1, at - 1) \o SubSeq(heap, at + 1, Len(heap))

\* for _ in 0..HASH_COUNT { if heap.is_empty() { break; } hashes.push(heap.pop()) }
RECURSIVE PopLoop(_, _, _)
PopLoop(heap, hashes, remaining) ==
    IF remaining = 0 \/ heap = <<>> THEN hashes
    ELSE PopLoop(HeapRemove(heap, HeapTop(heap)),
                 Append(hashes, HeapTop(heap)), remaining - 1)

\* faulty variant: slices aligned to the end of the vector, the first possibly
\* shorter
ChunksFromEnd(hashes, size) ==
    LET n == Len(hashes)
        count == (n + size - 1) \div size
        first == n - (count - 1) * size
    IN Vec([i \in 1 .. count |->
          IF i = 1 THEN SubSeq(hashes, 1, first)
          ELSE SubSeq(hashes, first + (i - 2) * size + 1, first + (i - 1) * size)])
\* hashes.chunks(size): consecutive slices, the last one possibly shorter
Chunks(hashes, size) ==
    Vec([i \in 1 .. (Len(hashes) + size - 1) \div size |->
        SubSeq(hashes, (i - 1) * size + 1, Min(i * size, Len(hashes)))])

\* .map(hash of the chunk).enumerate(): (bucket_index, min_hash) pairs
BandKeys(hashes) ==
    LET chunks == Chunks(hashes, BAND_SIZE)
    IN Vec([i \in 1 .. Len(chunks) |-> <<i - 1, HashChunk(chunks[i])>>])

\* chunked_min_hash: hashes is the local of that name (the signature before
\* banding), val the returned vector
chunked_min_hash(document, hash_count, checks) ==
    LET sc == CmhShingleCount(document, checks)
    IN IF sc.panic \/ WithCapacityPanics(sc.val) \/ SlicePanics(document, sc.val)
       THEN [panic |-> TRUE, hashes |-> <<>>, val |-> <<>>]
       ELSE LET hashes == PopLoop(PushedHashes(document, sc.val), <<>>, hash_count)
            IN [panic |-> FALSE, hashes |-> hashes, val |-> BandKeys(hashes)]

\* ------------------------------------------------------------ string_shingles
\* let shingle_count = document.len() - SHINGLE_SIZE;
SsShingleCount(document, checks) ==
    IF ~SubOverflows(Len(document), SHINGLE_SIZE)
    THEN [panic |-> FALSE, val |-> Len(document) - SHINGLE_SIZE]
    ELSE IF checks
    THEN [panic |-> TRUE, val |-> 0]
    ELSE [panic |-> FALSE, val |-> WrappingSub(Len(document), SHINGLE_SIZE)]

string_shingles(document, checks) ==
    LET sc == SsShingleCount(document, checks)
    IN IF sc.panic \/ SlicePanics(document, sc.val)
       THEN [panic |-> TRUE, val |-> {}]
       ELSE [panic |-> FALSE,
             val |-> {HashStr(Shingle(document, idx)) : idx \in 0 .. sc.val - 1}]

\* ------------------------------------------------------------ jaccard_similarity
\* The f32 quotient is kept as the pair <<numerator, denominator>> of the two
\* usize operands; 0/0 is NaN.  For operands this small the f32 division is
\* exact up to rounding of equal rationals, so the order and equality of the
\* quotients are those of the fractions.
jaccard_similarity(a, b) ==
    LET intersection_cardinality == Cardinality(a \cap b)
    IN <<intersection_cardinality,
         Cardinality(a) + Cardinality(b) - intersection_cardinality>>

IsNaN(sim) == sim[2] = 0
SimEq(x, y) == ~IsNaN(x) /\ ~IsNaN(y) /\ x[1] * y[2] = y[1] * x[2]
SimGt(x, y) == ~IsNaN(x) /\ ~IsNaN(y) /\ x[1] * y[2] > y[1] * x[2]
SimIsOne(x) == ~IsNaN(x) /\ x[1] = x[2]

\* ------------------------------------------------------------ nearest_neighbors
\* Vec::resize(n, fill): truncates or pads
Resize(v, n, fill) ==
    [i \in 1 .. n |-> IF i <= Len(v) THEN v[i] ELSE fill]

\* faulty variant: the resize without its length guard
ResizeUnguarded(similar_matches, n) == Resize(similar_matches, n, <<0, <<0, 1>>>>)
\* if similar_matches.len() > n { similar_matches.resize(n, (0, 0.0)); }
TruncateTo(similar_matches, n) ==
    IF Len(similar_matches) > n
    THEN Resize(similar_matches, n, <<0, <<0, 1>>>>)
    ELSE similar_matches

\* sort_by(|a, b| b.1.partial_cmp(&a.1).unwrap()) is a stable sort: an entry
\* goes behind every earlier entry that is not smaller than it
InsertSorted(sorted, e) ==
    LET keep == Cardinality({i \in 1 .. Len(sorted) : ~SimGt(e[2], sorted[i][2])})
    IN SubSeq(sorted, 1, keep) \o <<e>> \o SubSeq(sorted, keep + 1, Len(sorted))

RECURSIVE StableSortDesc(_, _)
StableSortDesc(sorted, rest) ==
    IF rest = <<>> THEN sorted
    ELSE StableSortDesc(InsertSorted(sorted, Head(rest)), Tail(rest))

\* partial_cmp is None on NaN and every entry of a vector of two or more is
\* compared at least once
SortPanics(similar_matches) ==
    Len(similar_matches) >= 2
    /\ \E i \in 1 .. Len(similar_matches) : IsNaN(similar_matches[i][2])

\* order: the sequence in which matches.par_iter() hands out the HashSet's
\* elements (collect keeps that order); document ids are 0-based
nearest_neighbors(query, n, order, documents, checks) ==
    LET query_shingles == string_shingles(query, checks)
        match_shingles(m) == string_shingles(documents[m + 1], checks)
    IN IF query_shingles.panic \/ \E i \in 1 .. Len(order) : match_shingles(order[i]).panic
       THEN [panic |-> TRUE, val |-> <<>>]
       ELSE LET similar_matches ==
                    Vec([i \in 1 .. Len(order) |->
                        <<order[i],
                          jaccard_similarity(query_shingles.val, match_shingles(order[i]).val)>>])
            IN IF SortPanics(similar_matches)
               THEN [panic |-> TRUE, val |-> <<>>]
               ELSE [panic |-> FALSE,
                     val |-> TruncateTo(StableSortDesc(<<>>, similar_matches), n)]

\* ------------------------------------------------------------ index_documents
\* a HashMap<u64, Vec<usize>> is a function from its keys
EmptyMap == [k \in {} |-> <<>>]

\* bucket.entry(min_hash).or_insert(vec![]).push(document_index)
EntryPush(bucket, min_hash, document_index) ==
    [k \in DOMAIN bucket \cup {min_hash} |->
        IF k = min_hash
        THEN (IF min_hash \in DOMAIN bucket THEN bucket[min_hash] ELSE <<>>)
             \o <<document_index>>
        ELSE bucket[k]]

\* faulty variant: every band-slot shares table 0
BucketSlotMerged(bucket_index) == 1
\* &mut buckets[*bucket_index], the tables being 1-based here
BucketSlot(bucket_index) == bucket_index + 1

RECURSIVE InsertSignature(_, _, _, _)
InsertSignature(buckets, signature, i, document_index) ==
    IF i > Len(signature) THEN buckets
    ELSE InsertSignature(
             [buckets EXCEPT ![BucketSlot(signature[i][1])] =
                 EntryPush(@, signature[i][2], document_index)],
             signature, i + 1, document_index)

RECURSIVE InsertDocuments(_, _, _)
InsertDocuments(buckets, signatures, d) ==
    IF d > Len(signatures) THEN buckets
    ELSE InsertDocuments(InsertSignature(buckets, signatures[d], 1, d - 1),
                         signatures, d + 1)

\* buckets[*bucket_index] past the bucket_count tables
SlotOutOfBounds(signature, bucket_count) ==
    \E i \in 1 .. Len(signature) : signature[i][1] >= bucket_count

index_documents(documents, hash_count, checks) ==
    LET bucket_count == hash_count \div BAND_SIZE
        results == Vec([d \in 1 .. Len(documents) |->
                           chunked_min_hash(documents[d], hash_count, checks)])
    IN IF \E d \in 1 .. Len(documents) :
              results[d].panic \/ SlotOutOfBounds(results[d].val, bucket_count)
       THEN [panic |-> TRUE, val |-> <<>>]
       ELSE [panic |-> FALSE,
             val |-> InsertDocuments([b \in 1 .. bucket_count |-> EmptyMap],
                                     [d \in 1 .. Len(documents) |-> results[d].val], 1)]

\* ------------------------------------------------------------ search_index
\* the candidate loop of search_index: matches.extend(&bucket[min_hash])
SearchMatches(buckets, query, hash_count, checks) ==
    LET query_signature == chunked_min_hash(query, hash_count, checks)
    IN IF query_signature.panic \/ SlotOutOfBounds(query_signature.val, Len(buckets))
       THEN [panic |-> TRUE, val |-> {}]
       ELSE [panic |-> FALSE,
             val |-> UNION {
                 LET bucket == buckets[BucketSlot(query_signature.val[i][1])]
                     min_hash == query_signature.val[i][2]
                 IN IF min_hash \in DOMAIN bucket THEN Range(bucket[min_hash]) ELSE {}
                 : i \in 1 .. Len(query_signature.val)}]

\* the orders in which a HashSet can be iterated
IterationOrders(set) ==
    {order \in [1 .. Cardinality(set) -> set] :
        \A i, j \in 1 .. Cardinality(set) : i # j => order[i] # order[j]}

\* search_index with the HashSet's iteration order made explicit
search_index(documents, buckets, query, n, order, hash_count, checks) ==
    LET found == SearchMatches(buckets, query, hash_count, checks)
    IN IF found.panic
       THEN [panic |-> TRUE, matches |-> {}, top_neighbors |-> <<>>]
       ELSE LET top == nearest_neighbors(query, n, order, documents, checks)
            IN IF top.panic
               THEN [panic |-> TRUE, matches |-> {}, top_neighbors |-> <<>>]
               ELSE [panic |-> FALSE, matches |-> found.val, top_neighbors |-> top.val]

\* ------------------------------------------------------------ state
VARIABLES
    overflow_checks,   \* the build profile: TRUE debug, FALSE release
    documents,         \* main's documents vector
    index_result,      \* "none", "ok", "panic": the call of index_documents
    buckets,           \* its return value
    query, top_n,      \* the arguments of the search_index call
    search_result,     \* "none", "ok", "panic"
    matches,           \* search_index's returned pair
    top_neighbors,
    sig_call,          \* single-function runs: which function was called
    sig_document,      \* on which text
    sig_hash_count,    \* with which hash count
    sig_ret            \* and what it returned

vars == <<overflow_checks, documents, index_result, buckets, query, top_n,
          search_result, matches, top_neighbors,
          sig_call, sig_document, sig_hash_count, sig_ret>>

mainVars == <<documents, index_result, buckets, query, top_n,
              search_result, matches, top_neighbors>>
sigVars == <<sig_call, sig_document, sig_hash_count, sig_ret>>

NoRet == [panic |-> FALSE, hashes |-> <<>>, val |-> <<>>, shingles |-> {}]

MainIdle ==
    /\ documents = <<>>
    /\ index_result = "none"
    /\ buckets = <<>>
    /\ query = <<>>
    /\ top_n = 0
    /\ search_result = "none"
    /\ matches = {}
    /\ top_neighbors = <<>>

\* ------------------------------------------------------------ main's run
Init ==
    /\ overflow_checks \in BOOLEAN
    /\ MainIdle
    /\ sig_call = "none"
    /\ sig_document = <<>>
    /\ sig_hash_count = HASH_COUNT
    /\ sig_ret = NoRet

\* documents.push(...)
PushDocument(document) ==
    /\ index_result = "none"
    /\ Len(documents) < MaxDocs
    /\ documents' = Append(documents, document)
    /\ UNCHANGED <<overflow_checks, index_result, buckets, query, top_n,
                   search_result, matches, top_neighbors, sigVars>>

\* let mut buckets = index_documents(&mut documents);
IndexDocuments ==
    /\ index_result = "none"
    /\ LET built == index_documents(documents, HASH_COUNT, overflow_checks)
       IN /\ index_result' = IF built.panic THEN "panic" ELSE "ok"
          /\ buckets' = built.val
    /\ UNCHANGED <<overflow_checks, documents, query, top_n,
                   search_result, matches, top_neighbors, sigVars>>

\* let (matches, top_neighbors) = search_index(&documents, &mut buckets, query, n);
SearchIndex(q, n) ==
    /\ index_result = "ok"
    /\ search_result = "none"
    /\ LET found == SearchMatches(buckets, q, HASH_COUNT, overflow_checks)
       IN \E order \in IterationOrders(found.val) :
            LET ret == search_index(documents, buckets, q, n, order,
                                    HASH_COUNT, overflow_checks)
            IN /\ search_result' = IF ret.panic THEN "panic" ELSE "ok"
               /\ matches' = ret.matches
               /\ top_neighbors' = ret.top_neighbors
    /\ query' = q
    /\ top_n' = n
    /\ UNCHANGED <<overflow_checks, documents, index_result, buckets, sigVars>>

Next ==
    \/ \E document \in Strings(MaxLen) : PushDocument(document)
    \/ IndexDocuments
    \/ \E q \in Strings(MaxLen), n \in 0 .. MaxTopN : SearchIndex(q, n)

Spec == Init /\ [][Next]_vars

\* ------------------------------------------------------------ single calls
SigInit ==
    /\ overflow_checks \in BOOLEAN
    /\ MainIdle
    /\ sig_call = "none"
    /\ sig_document \in Strings(MaxSigLen)
    /\ sig_hash_count \in HashCounts
    /\ sig_ret = NoRet

CallChunkedMinHash ==
    /\ sig_call = "none"
    /\ sig_call' = "chunked_min_hash"
    /\ LET r == chunked_min_hash(sig_document, sig_hash_count, overflow_checks)
       IN sig_ret' = [panic |-> r.panic, hashes |-> r.hashes, val |-> r.val,
                      shingles |-> {}]
    /\ UNCHANGED <<overflow_checks, mainVars, sig_document, sig_hash_count>>

CallStringShingles ==
    /\ sig_call = "none"
    /\ sig_call' = "string_shingles"
    /\ LET r == string_shingles(sig_document, overflow_checks)
       IN sig_ret' = [panic |-> r.panic, hashes |-> <<>>, val |-> <<>>,
                      shingles |-> r.val]
    /\ UNCHANGED <<overflow_checks, mainVars, sig_document, sig_hash_count>>

SigNext == CallChunkedMinHash \/ CallStringShingles

SigSpec == SigInit /\ [][SigNext]_vars

\* ------------------------------------------------------------ properties
Count(seq, v) == Cardinality({i \in 1 .. Len(seq) : seq[i] = v})

\* the hashes of the shingles at every position 0 .. L - S of a text
PositionHashes(document) ==
    [i \in 1 .. Len(document) - SHINGLE_SIZE + 1 |-> HashStr(Shingle(document, i - 1))]

\* C4: for a document with at least one shingle, the signature before banding
\* has length min(K, shingle_count), is in ascending order, and holds the K
\* smallest shingle hashes: it is a sub-multiset of the position hashes and
\* every hash left out is at least as large as every hash taken; the call does
\* not fail.
C4_SignatureIsKSmallest ==
    (sig_call = "chunked_min_hash" /\ Len(sig_document) >= SHINGLE_SIZE) =>
        LET all == PositionHashes(sig_document)
            hashes == sig_ret.hashes
        IN /\ ~sig_ret.panic
           /\ Len(hashes) = Min(sig_hash_count, Len(all))
           /\ \A i \in 1 .. Len(hashes) - 1 : hashes[i] <= hashes[i + 1]
           /\ \A v \in Range(hashes) : Count(hashes, v) <= Count(all, v)
           /\ \A v \in Range(all) :
                 Count(hashes, v) < Count(all, v) =>
                     \A w \in Range(hashes) : w <= v

\* C4 witness: a document with more shingles than the hash count, some of them
\* repeated, whose signature was cut to the hash count
C4_Witness ==
    /\ sig_call = "chunked_min_hash"
    /\ ~sig_ret.panic
    /\ Len(PositionHashes(sig_document)) > sig_hash_count
    /\ Len(sig_ret.hashes) = sig_hash_count
    /\ Cardinality(Range(PositionHashes(sig_document))) >= 3

\* C10: the signature holds no value twice (it is strictly ascending).
C10_SignatureStrictlyAscending ==
    (sig_call = "chunked_min_hash" /\ ~sig_ret.panic) =>
        \A i \in 1 .. Len(sig_ret.hashes) - 1 :
            sig_ret.hashes[i] < sig_ret.hashes[i + 1]

\* C3: for a document of length L >= S the shingle-hash set of the reranking
\* path holds the hash of the shingle at every position 0 .. L - S.
C3_FullShingleSet ==
    (sig_call = "string_shingles" /\ Len(sig_document) >= SHINGLE_SIZE) =>
        /\ ~sig_ret.panic
        /\ sig_ret.shingles = Range(PositionHashes(sig_document))

\* the banded signature the program computes for a text
Signature(document) == chunked_min_hash(document, HASH_COUNT, overflow_checks).val

DocIds == 0 .. Len(documents) - 1

\* document d and the query have the same key in the same band-slot
SharesSlotKey(d) ==
    LET sd == Signature(documents[d + 1])
        sq == Signature(query)
    IN \E i \in 1 .. Len(sd), j \in 1 .. Len(sq) :
          sd[i][1] = sq[j][1] /\ sd[i][2] = sq[j][2]

\* a key of document d equals a key of the query at another band-slot
SharesKeyAcrossSlots(d) ==
    LET sd == Signature(documents[d + 1])
        sq == Signature(query)
    IN \E i \in 1 .. Len(sd), j \in 1 .. Len(sq) :
          sd[i][1] # sq[j][1] /\ sd[i][2] = sq[j][2]

\* C5: the candidate set of a search is exactly the set of document ids that
\* have the query's bucket key in the same band-slot.
C5_CandidatesAreSlotMatches ==
    search_result = "ok" => matches = {d \in DocIds : SharesSlotKey(d)}

\* C5 witness: a search that found a candidate while another document, whose
\* key equals a query key of a different slot only, stayed out
C5_Witness ==
    /\ search_result = "ok"
    /\ matches # {}
    /\ \E d \in DocIds \ matches : SharesKeyAcrossSlots(d)

\* the similarity the program computes for document d against the query
Similarity(d) ==
    jaccard_similarity(string_shingles(query, overflow_checks).val,
                       string_shingles(documents[d + 1], overflow_checks).val)

\* C8: a returned list has length min(top_n, |candidates|), every entry is a
\* distinct candidate with its computed similarity, and an empty candidate set
\* gives an empty list.
C8_NoPaddingExactLength ==
    search_result = "ok" =>
        /\ Len(top_neighbors) = Min(top_n, Cardinality(matches))
        /\ \A i \in 1 .. Len(top_neighbors) :
              /\ top_neighbors[i][1] \in matches
              /\ top_neighbors[i][2] = Similarity(top_neighbors[i][1])
        /\ \A i, j \in 1 .. Len(top_neighbors) :
              i # j => top_neighbors[i][1] # top_neighbors[j][1]

\* C8 witness: fewer candidates than top_n, returned with their similarities
\* and without padding
C8_Witness ==
    /\ search_result = "ok"
    /\ matches # {}
    /\ top_n > Cardinality(matches)
    /\ Len(top_neighbors) = Cardinality(matches)
    /\ \A i \in 1 .. Len(top_neighbors) : ~IsNaN(top_neighbors[i][2])

\* the candidate set of the query over the corpus under hash count K
CandidatesUnder(K) ==
    SearchMatches(index_documents(documents, K, overflow_checks).val,
                  query, K, overflow_checks).val

\* C9: with corpus, query and band width fixed, the candidate set under hash
\* count K1 is a subset of the one under K2 for K1 <= K2, both multiples of
\* the band width.
C9_CandidatesMonotoneInHashCount ==
    search_result = "ok" =>
        LET under == Vec([b \in 1 .. MaxBands |-> CandidatesUnder(BAND_SIZE * b)])
        IN \A b1, b2 \in 1 .. MaxBands :
              b1 <= b2 => under[b1] \subseteq under[b2]

\* C9 witness: a search whose candidate set under the smallest hash count is
\* non-empty and strictly smaller than under the program's hash count
C9_Witness ==
    /\ search_result = "ok"
    /\ CandidatesUnder(BAND_SIZE) # {}
    /\ CandidatesUnder(BAND_SIZE) # CandidatesUnder(HASH_COUNT)

\* C1: a search for the text of an indexed document, long enough to shingle,
\* with top_n >= 1 returns a list that starts with similarity 1.0 and has the
\* document among its candidates with similarity 1.0.
C1_SelfSimilarity ==
    (search_result # "none" /\ top_n >= 1 /\ Len(query) >= SHINGLE_SIZE) =>
        \A d \in DocIds :
            documents[d + 1] = query =>
                /\ search_result = "ok"
                /\ d \in matches
                /\ SimIsOne(Similarity(d))
                /\ top_neighbors # <<>>
                /\ SimIsOne(top_neighbors[1][2])

\* C2: the returned list is sorted descending by similarity with equal
\* similarities in ascending document id.
C2_SortedTiesByAscendingId ==
    search_result = "ok" =>
        \A i, j \in 1 .. Len(top_neighbors) :
            i < j =>
                \/ SimGt(top_neighbors[i][2], top_neighbors[j][2])
                \/ /\ SimEq(top_neighbors[i][2], top_neighbors[j][2])
                   /\ top_neighbors[i][1] < top_neighbors[j][1]

\* the ids held anywhere in the bucket tables
IndexedIds ==
    UNION {UNION {Range(buckets[b][k]) : k \in DOMAIN buckets[b]} : b \in 1 .. Len(buckets)}

\* C6: building over a corpus that holds a document shorter than the shingle
\* size beside a document of sufficient length succeeds, and the short
\* document's id is in no bucket.
C6_ShortDocumentSkipped ==
    (/\ index_result # "none"
     /\ \E d \in DocIds : Len(documents[d + 1]) < SHINGLE_SIZE
     /\ \E d \in DocIds : Len(documents[d + 1]) >= SHINGLE_SIZE) =>
        /\ index_result = "ok"
        /\ \A d \in DocIds : Len(documents[d + 1]) < SHINGLE_SIZE => d \notin IndexedIds

\* C7: a search whose query is shorter than the shingle size ends with the
\* error value DocumentTooShortError.
C7_ShortQueryIsError ==
    (search_result # "none" /\ Len(query) < SHINGLE_SIZE) =>
        search_result = "DocumentTooShortError"

====
